---- MODULE Spec2Model ----
(***************************************************************************)
(* A model of the bilingual web scraper in src/main.py: the text           *)
(* normalizer and language classifier (WebScraper.clean_text,              *)
(* is_mostly_khmer, _process_text_block), the content and table            *)
(* extraction of one page, the semaphore-gated concurrent fetch            *)
(* (scrape_limited, scrape_url, scrape_multiple_urls), and main's          *)
(* sequential tail (remove_global_duplicates, save_to_csv).                *)
(*                                                                         *)
(* A text is a sequence of Unicode code points.  An Optional value is a    *)
(* sequence of length at most one: None is <<>>, a value x is <<x>>.       *)
(***************************************************************************)
EXTENDS Integers, Sequences, FiniteSets, TLC

VARIABLES
    urls,             \* scrape_multiple_urls: the input URL list
    web,              \* what the remote server may do on a GET
    pc,               \* per task: new, waiting, woken, fetching, sleeping, done
    sem,              \* asyncio.Semaphore: its free slots (_value)
    waiters,          \* asyncio.Semaphore: FIFO of tasks blocked in acquire
    resp,             \* per task: what client.get produced (Optional)
    content,          \* per task: scrape_url's local content dict (Optional)
    ret,              \* per task: the task's return value (Optional)
    waited,           \* per task: the time spent in asyncio.sleep
    mpc,              \* main's position
    results,          \* main's local results
    global_seen_en,   \* remove_global_duplicates: seen English texts
    global_seen_km,   \* remove_global_duplicates: seen Khmer texts
    new_results,      \* remove_global_duplicates: the list being built
    item,             \* remove_global_duplicates: index of the next page
    rows,             \* save_to_csv: the rows written
    finished,         \* history: the tasks in the order they completed
    raw_text,         \* _process_text_block: its raw_text argument
    detected,         \* what langdetect.detect does on the cleaned text
    block_content,    \* _process_text_block: its content argument
    cleaned,          \* clean_text: its return value
    bpc               \* position of the single-block or single-text run

taskVars == <<urls, web, pc, sem, waiters, resp, content, ret, waited>>
mainVars == <<mpc, results>>
dedupVars == <<global_seen_en, global_seen_km, new_results, item>>
blockVars == <<raw_text, detected, block_content, cleaned, bpc>>
progVars == <<taskVars, mainVars, dedupVars, rows, blockVars>>
vars == <<progVars, finished>>

None == <<>>
Some(x) == <<x>>

(***************************************************************************)
(* Bounds of the model.                                                    *)
(***************************************************************************)
\* URLs given to scrape_multiple_urls in the pipeline runs.
NumUrls == 3
\* URLs given to scrape_multiple_urls in the admission-gate runs.
NumGateUrls == 6
\* Longest run of Khmer letters on either side of a structured block.
MaxKhmerRun == 6
\* Longest run of Latin letters inside a structured block.
MaxLatinRun == 16
\* Longest raw text enumerated character by character.
MaxRawLen == 3
\* Pages in an enumerated input of remove_global_duplicates.
MaxPages == 2
\* Texts in the english_text list of an enumerated page.
MaxTexts == 2
\* Texts in the khmer_text list of an enumerated page.
MaxKhmerTexts == 1
\* Elements in an enumerated document.
MaxElems == 3
\* Characters in an enumerated argument of clean_text.
MaxCleanLen == 6

(***************************************************************************)
(* Characters.                                                             *)
(***************************************************************************)
\* '\u1780' <= c <= '\u17FF'
KhmerFirst == 6016
KhmerLast == 6143
IsKhmerChar(c) == KhmerFirst <= c /\ c <= KhmerLast

\* \s of a str pattern, and str.strip(): the characters with str.isspace().
IsSpace(c) ==
    \/ c \in 9..13
    \/ c \in 28..32
    \/ c \in {133, 160, 5760, 8232, 8233, 8239, 8287, 12288}
    \/ c \in 8192..8202

\* \d of a str pattern: the decimal digits (category Nd); of its many ranges
\* the ASCII digits and the Khmer digits U+17E0..U+17E9 are listed.
IsDigit(c) == c \in 48..57 \/ c \in 6112..6121

\* [\u2013\u2014\u2015\u2212-]
IsDash(c) == c \in {8211, 8212, 8213, 8722, 45}

\* \.
IsDot(c) == c = 46

(***************************************************************************)
(* Sequences.                                                              *)
(***************************************************************************)
\* The elements of s at the indices in the set idx, in order.
KeepAt(s, idx) ==
    LET F[i \in 0..Len(s)] ==
            IF i = 0 THEN <<>>
            ELSE IF i \in idx THEN Append(F[i - 1], s[i]) ELSE F[i - 1]
    IN F[Len(s)]

Range(s) == {s[i] : i \in 1..Len(s)}

\* str.strip(): without its leading and trailing whitespace.
Strip(s) ==
    LET solid == {i \in 1..Len(s) : ~IsSpace(s[i])}
    IN IF solid = {} THEN <<>>
       ELSE LET lo == CHOOSE i \in solid : \A j \in solid : i <= j
                hi == CHOOSE i \in solid : \A j \in solid : j <= i
            IN SubSeq(s, lo, hi)

(***************************************************************************)
(* WebScraper.clean_text                                                   *)
(***************************************************************************)
\* whitespace_pattern.sub(" ", s): every maximal whitespace run becomes " ".
whitespace_sub(s) ==
    LET first(i) == ~IsSpace(s[i]) \/ i = 1 \/ ~IsSpace(s[i - 1])
        kept == KeepAt(s, {i \in 1..Len(s) : first(i)})
    IN [i \in 1..Len(kept) |-> IF IsSpace(kept[i]) THEN 32 ELSE kept[i]]

\* dash_pattern.sub("", s): a dash between two digits is removed.
dash_sub(s) ==
    LET keep(i) == ~(/\ IsDash(s[i])
                     /\ i > 1 /\ IsDigit(s[i - 1])
                     /\ i < Len(s) /\ IsDigit(s[i + 1]))
    IN KeepAt(s, {i \in 1..Len(s) : keep(i)})

\* dot_pattern.sub("", s): every run of two or more dots is removed.
dot_sub(s) ==
    LET keep(i) == ~(/\ IsDot(s[i])
                     /\ \/ (i > 1 /\ IsDot(s[i - 1]))
                        \/ (i < Len(s) /\ IsDot(s[i + 1])))
    IN KeepAt(s, {i \in 1..Len(s) : keep(i)})

clean_text(text) ==
    IF text = <<>> THEN <<>>
    ELSE Strip(dot_sub(dash_sub(whitespace_sub(Strip(text)))))

(***************************************************************************)
(* WebScraper.is_mostly_khmer                                              *)
(***************************************************************************)
\* min_khmer_chars: int = 10
MinKhmerChars == 10
\* char_ratio: float = 0.4, as the fraction RatioNum / RatioDen
RatioNum == 4
RatioDen == 10

\* Faulty variant: the count threshold made exclusive.
is_mostly_khmer_exclusive(text) ==
    LET khmer_chars == Cardinality({i \in 1..Len(text) : IsKhmerChar(text[i])})
        total_chars == Len(text)
    IN IF total_chars = 0 THEN FALSE
       ELSE /\ khmer_chars > MinKhmerChars
            /\ khmer_chars * RatioDen >= RatioNum * total_chars

is_mostly_khmer(text) ==
    LET khmer_chars == Cardinality({i \in 1..Len(text) : IsKhmerChar(text[i])})
        total_chars == Len(text)
    IN IF total_chars = 0 THEN FALSE
       ELSE /\ khmer_chars >= MinKhmerChars
            /\ khmer_chars * RatioDen >= RatioNum * total_chars

(***************************************************************************)
(* WebScraper._process_text_block                                          *)
(***************************************************************************)
\* Blocks of at most this many raw characters are skipped.
MinRawLen == 5

\* What detect(cleaned_text) does: it returns a language code or raises.
DetectOutcomes == {"en", "km", "fr", "raise"}

EmptyContent == [english_text |-> <<>>, khmer_text |-> <<>>]

\* Faulty variant: a code other than "en" and "km" is not coerced to "en".
detect_lang_uncoerced(d) == IF d = "raise" THEN "unknown" ELSE d

\* The language decided for a cleaned block that is not mostly Khmer.
detect_lang(d) ==
    IF d = "raise" THEN "unknown"
    ELSE IF d \notin {"en", "km"} THEN "en" ELSE d

block_lang(cleaned_text, d) ==
    IF is_mostly_khmer(cleaned_text) THEN "km" ELSE detect_lang(d)

\* Faulty variant: the length threshold is applied to the cleaned text.
process_text_block_cleaned_gate(raw, d, c) ==
    LET cleaned_text == clean_text(raw)
    IN IF cleaned_text = <<>> \/ Len(cleaned_text) <= MinRawLen THEN c
       ELSE LET lang == block_lang(cleaned_text, d)
            IN IF lang = "en"
               THEN [c EXCEPT !.english_text = Append(@, cleaned_text)]
               ELSE IF lang = "km"
               THEN [c EXCEPT !.khmer_text = Append(@, cleaned_text)]
               ELSE c

process_text_block(raw, d, c) ==
    IF raw = <<>> \/ Len(raw) <= MinRawLen THEN c
    ELSE LET cleaned_text == clean_text(raw)
         IN IF cleaned_text = <<>> THEN c
            ELSE LET lang == block_lang(cleaned_text, d)
                 IN IF lang = "en"
                    THEN [c EXCEPT !.english_text = Append(@, cleaned_text)]
                    ELSE IF lang = "km"
                    THEN [c EXCEPT !.khmer_text = Append(@, cleaned_text)]
                    ELSE c

(***************************************************************************)
(* A parsed page.  A document is [post_info, elems]; elems are its         *)
(* elements in document order.  A text is [s, det]: its characters and     *)
(* what langdetect.detect does on its cleaned form.  A post info is        *)
(* [region, date, category, det].  An element is                           *)
(* [tag, region, kw, txt, headers, rows]: region is "header" inside a      *)
(* <header>, "footer" inside the footer section, else "body"; kw says      *)
(* whether its text contains "Required" or "Courses"; a table has its      *)
(* th texts in headers and, per tr, its td texts in rows.  Cells do not    *)
(* nest further rows.                                                      *)
(***************************************************************************)
HeadingTags == {"h1", "h2", "h3", "h4", "h5", "h6"}
\* tag.name in ["h1", "h2", "h3", "div", "button", "span"]
TitleTags == {"h1", "h2", "h3", "div", "button", "span"}
\* tag.name in ["p", "small", "h4", "h5", "h6"]
DetailTags == {"p", "small", "h4", "h5", "h6"}

\* The tree after header.decompose() and footer_section.decompose().
Body(doc) == SelectSeq(doc.elems, LAMBDA e : e.region = "body")

\* "Published on " and " in "
PublishedOn == <<80, 117, 98, 108, 105, 115, 104, 101, 100, 32, 111, 110, 32>>
InWord == <<32, 105, 110, 32>>

\* WebScraper.extract_post_info_paragraph
extract_post_info_paragraph(doc) ==
    IF doc.post_info = None \/ doc.post_info[1].region # "body" THEN <<>>
    ELSE LET info == doc.post_info[1]
             publish_date == Strip(info.date)
             category == Strip(info.category)
         IN Strip((IF publish_date # <<>>
                   THEN PublishedOn \o publish_date ELSE <<>>)
                  \o (IF category # <<>> THEN InWord \o category ELSE <<>>))

\* extract_content, lines 135-146: the post info goes to the list of its
\* detected language; any other code, or an exception, drops it.
post_info_content(doc, c) ==
    LET post_info_text == extract_post_info_paragraph(doc)
        lang == IF doc.post_info = None THEN "unknown"
                ELSE IF doc.post_info[1].det = "raise" THEN "unknown"
                ELSE doc.post_info[1].det
    IN IF post_info_text = <<>> THEN c
       ELSE IF lang = "en" /\ post_info_text \notin Range(c.english_text)
       THEN [c EXCEPT !.english_text = Append(@, post_info_text)]
       ELSE IF lang = "km" /\ post_info_text \notin Range(c.khmer_text)
       THEN [c EXCEPT !.khmer_text = Append(@, post_info_text)]
       ELSE c

RECURSIVE Flatten(_)
Flatten(ss) == IF ss = <<>> THEN <<>> ELSE Head(ss) \o Flatten(Tail(ss))

\* soup.find_all(tags), as the texts of the matching elements; a table
\* contributes its th and td cells to a search for them.
TextsByTags(elems, tags) ==
    LET F[i \in 0..Len(elems)] ==
            IF i = 0 THEN <<>>
            ELSE LET e == elems[i]
                 IN IF e.tag = "table"
                    THEN F[i - 1]
                         \o (IF "th" \in tags THEN e.headers ELSE <<>>)
                         \o (IF "td" \in tags THEN Flatten(e.rows) ELSE <<>>)
                    ELSE IF e.tag \in tags THEN Append(F[i - 1], e.txt)
                    ELSE F[i - 1]
    IN F[Len(elems)]

\* WebScraper.extract_text_by_tags
RECURSIVE process_blocks(_, _)
process_blocks(texts, c) ==
    IF texts = <<>> THEN c
    ELSE process_blocks(Tail(texts),
                        process_text_block(Head(texts).s, Head(texts).det, c))

extract_text_by_tags(doc, tags, c) ==
    process_blocks(TextsByTags(Body(doc), tags), c)

\* WebScraper.extract_content
extract_content(doc) ==
    LET c0 == post_info_content(doc, EmptyContent)
        c1 == extract_text_by_tags(doc, HeadingTags, c0)
        c2 == extract_text_by_tags(doc, {"p"}, c1)
        c3 == extract_text_by_tags(doc, {"li"}, c2)
    IN extract_text_by_tags(doc, {"th", "td"}, c3)

(***************************************************************************)
(* WebScraper.extract_tables_to_dataframes                                 *)
(***************************************************************************)
Max(S) == CHOOSE x \in S : \A y \in S : y <= x

\* table.find_previous(pred) for the table at position i: the nearest
\* earlier position among those whose element satisfies pred (matching),
\* as an Optional index.
find_previous(i, matching) ==
    LET hits == {j \in matching : j < i}
    IN IF hits = {} THEN None ELSE Some(Max(hits))

\* f"Table {idx+1}"
TableN(n) == <<84, 97, 98, 108, 101, 32, 48 + n>>

\* The non-empty rows of a table: the td texts of each tr that has any.
TableRows(e) == SelectSeq(e.rows, LAMBDA r : r # <<>>)

\* pd.DataFrame(rows, columns=headers) raises unless the widest row has as
\* many cells as there are columns.
DataFrameRaises(e) ==
    LET rws == TableRows(e)
        width == Max({Len(rws[k]) : k \in 1..Len(rws)})
    IN rws # <<>> /\ e.headers # <<>> /\ Len(e.headers) # width

\* The record built for the table at position i, the idx-th table (from 0).
TableRecord(elems, i, idx) ==
    LET title_tag == find_previous(i,
                        {j \in 1..Len(elems) :
                            elems[j].tag \in TitleTags /\ elems[j].kw})
        detail_tag == find_previous(i,
                        {j \in 1..Len(elems) : elems[j].tag \in DetailTags})
    IN [title |-> IF title_tag # None
                  THEN Some(elems[title_tag[1]].txt.s)
                  ELSE Some(TableN(idx + 1)),
        detail |-> IF detail_tag # None
                   THEN Some(elems[detail_tag[1]].txt.s) ELSE None,
        nrows |-> Len(TableRows(elems[i]))]

\* first_p.get_text(strip=True) if first_p else ""
FirstPText(elems) ==
    LET ps == {j \in 1..Len(elems) : elems[j].tag = "p"}
    IN IF ps = {} THEN <<>>
       ELSE elems[CHOOSE j \in ps : \A k \in ps : j <= k].txt.s

\* Lines 256-259: the first record takes its detail as title and the first
\* paragraph as detail.
fix_first(extracted, first_p_text) ==
    IF extracted = <<>> THEN extracted
    ELSE [extracted EXCEPT ![1] = [@ EXCEPT !.title = extracted[1].detail,
                                            !.detail = Some(first_p_text)]]

\* The result is [raised, tables]: raised when a DataFrame cannot be built.
extract_tables_to_dataframes(doc) ==
    LET elems == Body(doc)
        tables == {i \in 1..Len(elems) : elems[i].tag = "table"}
        idx(i) == Cardinality({j \in tables : j < i})
        F[i \in 0..Len(elems)] ==
            IF i = 0 THEN <<>>
            ELSE IF i \in tables /\ TableRows(elems[i]) # <<>>
            THEN Append(F[i - 1], TableRecord(elems, i, idx(i)))
            ELSE F[i - 1]
    IN [raised |-> \E i \in tables : DataFrameRaises(elems[i]),
        tables |-> fix_first(F[Len(elems)], FirstPText(elems))]

\* safe_filename(text): re.sub on None raises TypeError.
safe_filename_raises(title) == title = None

\* scrape_url, lines 347-366: the content of a page answered with 200, or
\* None when extracting or rendering its tables raises.
page_content(url, doc) ==
    LET c == extract_content(doc)
        t == extract_tables_to_dataframes(doc)
    IN IF t.raised THEN None
       ELSE IF t.tables # <<>> /\ safe_filename_raises(t.tables[1].title)
       THEN None
       ELSE Some([url |-> url, status |-> "success",
                  english_text |-> c.english_text,
                  khmer_text |-> c.khmer_text])

(***************************************************************************)
(* Inputs of the single-block runs.                                        *)
(***************************************************************************)
Alphabet == {32, 45, 46, 49, 97, 6016}

RECURSIVE Repeat(_, _)
Repeat(c, n) == IF n = 0 THEN <<>> ELSE <<c>> \o Repeat(c, n - 1)

\* Texts over the alphabet, character by character.
EnumTexts == UNION {[1..n -> Alphabet] : n \in 0..MaxRawLen}

\* Runs that bring an enumerated text over the raw length threshold.
Fillers == {<<>>, Repeat(46, 4), Repeat(97, 4), Repeat(32, 4)}

\* Khmer letters around a run of Latin letters.
StructuredBlocks ==
    {Repeat(6016, a) \o Repeat(97, b) \o Repeat(6016, c) :
        a \in 0..MaxKhmerRun, b \in 0..MaxLatinRun, c \in 0..MaxKhmerRun}

RawTexts == StructuredBlocks \cup {p \o f : p \in EnumTexts, f \in Fillers}

(***************************************************************************)
(* Values of the variables a run does not use.                             *)
(***************************************************************************)
\* asyncio.Semaphore(5)
GateSize == 5
\* httpx.Limits(max_connections=10)
MaxConnections == 10

IdleTasks ==
    /\ urls = <<>> /\ web = {} /\ pc = <<>> /\ sem = GateSize
    /\ waiters = <<>> /\ resp = <<>> /\ content = <<>> /\ ret = <<>>
    /\ waited = <<>> /\ finished = <<>>

IdleMain == mpc = "idle" /\ results = <<>>

IdleDedup ==
    /\ global_seen_en = {} /\ global_seen_km = {}
    /\ new_results = <<>> /\ item = 1

IdleBlock ==
    /\ raw_text = <<>> /\ detected = "en"
    /\ block_content = EmptyContent /\ cleaned = <<>> /\ bpc = "idle"

(***************************************************************************)
(* SpecBlock: one call of _process_text_block on a fresh content dict.     *)
(***************************************************************************)
InitBlock ==
    /\ raw_text \in RawTexts
    /\ detected \in DetectOutcomes
    /\ block_content = EmptyContent /\ cleaned = <<>>
    /\ bpc = "call"
    /\ IdleTasks /\ IdleMain /\ IdleDedup /\ rows = <<>>

ProcessBlock ==
    /\ bpc = "call"
    /\ block_content' = process_text_block(raw_text, detected, block_content)
    /\ bpc' = "return"
    /\ UNCHANGED <<raw_text, detected, cleaned, taskVars, mainVars, dedupVars,
                   rows, finished>>

NextBlock == ProcessBlock

SpecBlock == InitBlock /\ [][NextBlock]_vars

(***************************************************************************)
(* SpecClean: one call of clean_text.  The argument is any text of a space,*)
(* a line feed, a hyphen, a dot and a digit.                               *)
(***************************************************************************)
CleanAlphabet == {32, 10, 45, 46, 49}

InitClean ==
    /\ \E n \in 0..MaxCleanLen : raw_text \in [1..n -> CleanAlphabet]
    /\ detected = "en" /\ block_content = EmptyContent /\ cleaned = <<>>
    /\ bpc = "call"
    /\ IdleTasks /\ IdleMain /\ IdleDedup /\ rows = <<>>

CleanText ==
    /\ bpc = "call"
    /\ cleaned' = clean_text(raw_text)
    /\ bpc' = "return"
    /\ UNCHANGED <<raw_text, detected, block_content, taskVars, mainVars,
                   dedupVars, rows, finished>>

NextClean == CleanText

SpecClean == InitClean /\ [][NextClean]_vars

(***************************************************************************)
(* URLs, documents and responses of the fetch runs.                        *)
(***************************************************************************)
\* "https://www.aupp.edu.kh/<n>" and the relative "<n>" (no scheme, no host)
GoodUrl(n) == [scheme |-> "https", netloc |-> "www.aupp.edu.kh", path |-> n]
BadUrl(n) == [scheme |-> "", netloc |-> "", path |-> n]

\* WebScraper.validate_url: the host outside aupp.edu.kh is only logged.
validate_url(url) == url.scheme # "" /\ url.netloc # ""

En(s) == [s |-> s, det |-> "en"]
Km(s) == [s |-> s, det |-> "km"]
NoText == [s |-> <<>>, det |-> "raise"]

Elem(tag, txt, kw) ==
    [tag |-> tag, region |-> "body", kw |-> kw, txt |-> txt,
     headers |-> <<>>, rows |-> <<>>]
Table(headers, rws) ==
    [tag |-> "table", region |-> "body", kw |-> FALSE, txt |-> NoText,
     headers |-> headers, rows |-> rws]

Welcome == <<87, 101, 108, 99, 111, 109, 101>>
CampusNews == <<67, 97, 109, 112, 117, 115, 32, 110, 101, 119, 115>>
Math101 == <<77, 97, 116, 104, 49, 48, 49>>
KhmerText == Repeat(6016, 12)

EmptyDoc == [post_info |-> None, elems |-> <<>>]
\* "2024" and "News"
Year == <<50, 48, 50, 52>>
News == <<78, 101, 119, 115>>
PostInfo ==
    [region |-> "body", date |-> Year, category |-> News, det |-> "en"]

\* A post info, a heading and a paragraph, all English.
DocA == [post_info |-> Some(PostInfo),
         elems |-> <<Elem("h1", En(Welcome), FALSE),
                     Elem("p", En(CampusNews), FALSE)>>]
\* The same heading text in a paragraph, and a Khmer paragraph.
DocB == [post_info |-> None,
         elems |-> <<Elem("p", En(Welcome), FALSE),
                     Elem("p", Km(KhmerText), FALSE)>>]
\* A heading and a one-row table that no p, small, h4, h5 or h6 precedes.
DocC == [post_info |-> None,
         elems |-> <<Elem("h1", En(Welcome), FALSE),
                     Table(<<>>, <<<<En(Math101)>>>>)>>]

SamplePages == {DocA, DocB, DocC}

\* What client.get(url) may produce: a timeout, another exception, or a
\* response with a status code and, for 200, a document.
Raised(k) == [kind |-> k, status |-> 0, doc |-> EmptyDoc]
Answer(status, d) == [kind |-> "response", status |-> status, doc |-> d]

AllResponses ==
    {Raised("TimeoutException"), Raised("Exception"), Answer(404, EmptyDoc)}
    \cup {Answer(200, d) : d \in SamplePages}

(***************************************************************************)
(* The admission gate: asyncio.Semaphore(5), as functions of the gate      *)
(* state [sem, waiters, pc, ret].                                          *)
(***************************************************************************)
\* WebScraper(delay=1.0, ...)
Delay == 1

Tasks == 1..Len(urls)

Gate == [sem |-> sem, waiters |-> waiters, pc |-> pc, ret |-> ret]

SetGate(g) ==
    /\ sem' = g.sem /\ waiters' = g.waiters /\ pc' = g.pc /\ ret' = g.ret

\* Faulty variant: a semaphore that is locked only below zero.
locked_below_zero(g) == g.sem < 0 \/ g.waiters # <<>>

\* Semaphore.locked()
locked(g) == g.sem = 0 \/ g.waiters # <<>>

\* Semaphore.acquire() of task i: the slot is taken at once when the
\* semaphore is not locked, else the task queues up.
acquire(g, i) ==
    IF ~locked(g) THEN [g EXCEPT !.sem = @ - 1, !.pc[i] = "acquired"]
    ELSE [g EXCEPT !.waiters = Append(@, i), !.pc[i] = "waiting"]

\* Faulty variant: the slot is counted free but the first waiter is not woken.
release_without_wakeup(g) == [g EXCEPT !.sem = @ + 1]

\* Semaphore.release(): the slot goes to the first waiter, if any.
release(g) ==
    IF g.waiters = <<>> THEN [g EXCEPT !.sem = @ + 1]
    ELSE [g EXCEPT !.waiters = Tail(@), !.pc[Head(g.waiters)] = "woken"]

\* scrape_limited: scrape_url returned v, the async with block is left.
returns(g, i, v) == release([g EXCEPT !.ret[i] = v, !.pc[i] = "done"])

\* scrape_url up to its first await, lines 335-342.
enter(g, i) ==
    IF ~validate_url(urls[i]) THEN returns(g, i, None)
    ELSE [g EXCEPT !.pc[i] = "fetching"]

\* Faulty variant: only the timeout is handled.
handles_timeout_only(kind) == kind = "TimeoutException"

\* The except clauses of scrape_url, lines 373-376.
handles(kind) == kind \in {"TimeoutException", "Exception"}

\* response.status_code != 200
rejected(status) == status # 200

\* Faulty variant: the pacing delay is skipped.
paces_never(delay) == FALSE

\* if self.delay > 0
paces(delay) == delay > 0

(***************************************************************************)
(* The tasks of scrape_multiple_urls.                                      *)
(***************************************************************************)
restVars == <<dedupVars, rows, blockVars>>

\* The event loop runs task i, either for the first time (tasks start in
\* creation order) or after a release handed it a slot: it acquires the
\* semaphore and enters scrape_url, or queues up.
Run(i) ==
    /\ mpc = "scraping"
    /\ \/ pc[i] = "new" /\ \A j \in 1..(i - 1) : pc[j] # "new"
       \/ pc[i] = "woken"
    /\ LET g == IF pc[i] = "new" THEN acquire(Gate, i)
                ELSE [Gate EXCEPT !.pc[i] = "acquired"]
       IN SetGate(IF g.pc[i] = "acquired" THEN enter(g, i) ELSE g)
    /\ UNCHANGED <<urls, web, resp, content, waited, mainVars, restVars>>

\* client.get of task i completes; scrape_url runs to its next await or to
\* its return.  An exception that scrape_url does not handle leaves through
\* scrape_limited and gather into main.
GetReturns(i) ==
    /\ mpc = "scraping" /\ pc[i] = "fetching"
    /\ \E r \in web :
        /\ resp' = [resp EXCEPT ![i] = Some(r)]
        /\ IF r.kind # "response"
           THEN /\ SetGate(returns(Gate, i, None))
                /\ mpc' = IF handles(r.kind) THEN mpc ELSE "raised"
                /\ UNCHANGED content
           ELSE IF rejected(r.status)
           THEN /\ SetGate(returns(Gate, i, None))
                /\ UNCHANGED <<mpc, content>>
           ELSE LET c == page_content(urls[i], r.doc)
                IN IF c = None
                   THEN /\ SetGate(returns(Gate, i, None))
                        /\ UNCHANGED <<mpc, content>>
                   ELSE IF paces(Delay)
                   THEN /\ SetGate([Gate EXCEPT !.pc[i] = "sleeping"])
                        /\ content' = [content EXCEPT ![i] = c]
                        /\ UNCHANGED mpc
                   ELSE /\ SetGate(returns(Gate, i, c))
                        /\ content' = [content EXCEPT ![i] = c]
                        /\ UNCHANGED mpc
    /\ UNCHANGED <<urls, web, waited, results, restVars>>

\* asyncio.sleep(self.delay) of task i is over; scrape_url returns content.
SleepDone(i) ==
    /\ mpc = "scraping" /\ pc[i] = "sleeping"
    /\ waited' = [waited EXCEPT ![i] = Delay]
    /\ SetGate(returns(Gate, i, content[i]))
    /\ UNCHANGED <<urls, web, resp, content, mainVars, restVars>>

\* Faulty variant: the results in the order the tasks completed.
truthy_as_completed(rets) ==
    LET F[k \in 0..Len(finished)] ==
            IF k = 0 THEN <<>>
            ELSE IF rets[finished[k]] # None
            THEN Append(F[k - 1], rets[finished[k]][1])
            ELSE F[k - 1]
    IN F[Len(finished)]

\* [res for res in results if res]
truthy(rets) ==
    LET F[i \in 0..Len(rets)] ==
            IF i = 0 THEN <<>>
            ELSE IF rets[i] # None THEN Append(F[i - 1], rets[i][1])
            ELSE F[i - 1]
    IN F[Len(rets)]

\* Faulty variant: the join returns with the first completed task.
gathered_first_completed == \E i \in Tasks : pc[i] = "done"

\* asyncio.gather(*tasks) is complete when every task is.
gathered == \A i \in Tasks : pc[i] = "done"

\* scrape_multiple_urls returns; main calls remove_global_duplicates.
Gather ==
    /\ mpc = "scraping" /\ gathered
    /\ results' = truthy(ret)
    /\ mpc' = "dedup"
    /\ global_seen_en' = {} /\ global_seen_km' = {}
    /\ new_results' = <<>> /\ item' = 1
    /\ UNCHANGED <<taskVars, rows, blockVars>>

(***************************************************************************)
(* remove_global_duplicates, one page per step, and save_to_csv.           *)
(***************************************************************************)
\* Faulty variant: a kept text is not added to the seen-set.
seen_add_nothing(seen, text) == seen

\* global_seen_en.add(text), global_seen_km.add(text)
seen_add(seen, text) == seen \cup {text}

\* One inner loop: [kept, seen] after the texts of one list.
RECURSIVE keep_unseen(_, _, _)
keep_unseen(texts, kept, seen) ==
    IF texts = <<>> THEN [kept |-> kept, seen |-> seen]
    ELSE IF Head(texts) \notin seen
    THEN keep_unseen(Tail(texts), Append(kept, Head(texts)),
                     seen_add(seen, Head(texts)))
    ELSE keep_unseen(Tail(texts), kept, seen)

\* Faulty variant: a page is kept only when both of its lists are non-empty.
page_kept_both(new_en, new_km) == new_en # <<>> /\ new_km # <<>>

\* if new_en or new_km
page_kept(new_en, new_km) == new_en # <<>> \/ new_km # <<>>

DedupPage ==
    /\ mpc = "dedup" /\ item <= Len(results)
    /\ LET page == results[item]
           en == keep_unseen(page.english_text, <<>>, global_seen_en)
           km == keep_unseen(page.khmer_text, <<>>, global_seen_km)
       IN /\ global_seen_en' = en.seen
          /\ global_seen_km' = km.seen
          /\ new_results' =
                IF page_kept(en.kept, km.kept)
                THEN Append(new_results,
                            [url |-> page.url, status |-> page.status,
                             english_text |-> en.kept,
                             khmer_text |-> km.kept])
                ELSE new_results
    /\ item' = item + 1
    /\ UNCHANGED <<taskVars, mainVars, rows, blockVars>>

DedupReturn ==
    /\ mpc = "dedup" /\ item > Len(results)
    /\ results' = new_results
    /\ mpc' = "save"
    /\ UNCHANGED <<taskVars, dedupVars, rows, blockVars>>

\* Faulty variant: the Khmer rows of a page are written before its English rows.
PageRows_khmer_first(page) ==
    [k \in 1..Len(page.khmer_text) |->
        [English_Text |-> <<>>, Khmer_Text |-> page.khmer_text[k]]]
    \o [k \in 1..Len(page.english_text) |->
        [English_Text |-> page.english_text[k], Khmer_Text |-> <<>>]]

\* The rows of one page: its English rows, then its Khmer rows.
PageRows(page) ==
    [k \in 1..Len(page.english_text) |->
        [English_Text |-> page.english_text[k], Khmer_Text |-> <<>>]]
    \o [k \in 1..Len(page.khmer_text) |->
        [English_Text |-> <<>>, Khmer_Text |-> page.khmer_text[k]]]

RECURSIVE AllRows(_)
AllRows(data) ==
    IF data = <<>> THEN <<>> ELSE PageRows(Head(data)) \o AllRows(Tail(data))

\* WebScraper.save_to_csv: row_id starts at 1 and grows by one per row.
csv_rows(data) ==
    LET rs == AllRows(data)
    IN [k \in 1..Len(rs) |->
          [ID |-> k, English_Text |-> rs[k].English_Text,
           Khmer_Text |-> rs[k].Khmer_Text]]

SaveToCsv ==
    /\ mpc = "save"
    /\ rows' = csv_rows(results)
    /\ mpc' = "end"
    /\ UNCHANGED <<taskVars, results, dedupVars, blockVars>>

(***************************************************************************)
(* Spec: scrape_multiple_urls on NumUrls URLs followed by main's tail,     *)
(* with the completion order recorded.  The URL list is any list the       *)
(* method accepts; main itself passes only URLs that validate_url accepts. *)
(***************************************************************************)
InitTasks(n) ==
    /\ pc = [i \in 1..n |-> "new"]
    /\ sem = GateSize /\ waiters = <<>>
    /\ resp = [i \in 1..n |-> None]
    /\ content = [i \in 1..n |-> None]
    /\ ret = [i \in 1..n |-> None]
    /\ waited = [i \in 1..n |-> 0]
    /\ finished = <<>>
    /\ mpc = "scraping" /\ results = <<>>

Init ==
    /\ urls \in {[i \in 1..NumUrls |->
                    IF i \in bad THEN BadUrl(i) ELSE GoodUrl(i)] :
                 bad \in SUBSET (1..NumUrls)}
    /\ web = AllResponses
    /\ InitTasks(NumUrls)
    /\ IdleDedup /\ rows = <<>> /\ IdleBlock

\* The completion order: a task that completes in a step is appended.
Completes(i) == pc[i] # "done" /\ pc'[i] = "done"
Recorded(i) ==
    finished' = IF Completes(i) THEN Append(finished, i) ELSE finished

Next ==
    \/ \E i \in Tasks : Run(i) /\ Recorded(i)
    \/ \E i \in Tasks : GetReturns(i) /\ Recorded(i)
    \/ \E i \in Tasks : SleepDone(i) /\ Recorded(i)
    \/ Gather /\ UNCHANGED finished
    \/ DedupPage /\ UNCHANGED finished
    \/ DedupReturn /\ UNCHANGED finished
    \/ SaveToCsv /\ UNCHANGED finished

Spec == Init /\ [][Next]_vars

(***************************************************************************)
(* SpecGate: scrape_multiple_urls on more URLs than the gate has slots.    *)
(***************************************************************************)
InitGate ==
    /\ urls \in {[i \in 1..NumGateUrls |->
                    IF i = bad THEN BadUrl(i) ELSE GoodUrl(i)] :
                 bad \in 0..1}
    /\ web = {Raised("TimeoutException"), Answer(200, DocA)}
    /\ InitTasks(NumGateUrls)
    /\ IdleDedup /\ rows = <<>> /\ IdleBlock

NextGate ==
    \/ \E i \in Tasks : Run(i) /\ UNCHANGED finished
    \/ \E i \in Tasks : GetReturns(i) /\ UNCHANGED finished
    \/ \E i \in Tasks : SleepDone(i) /\ UNCHANGED finished
    \/ Gather /\ UNCHANGED finished
    \/ DedupPage /\ UNCHANGED finished
    \/ DedupReturn /\ UNCHANGED finished
    \/ SaveToCsv /\ UNCHANGED finished

SpecGate == InitGate /\ [][NextGate]_vars

(***************************************************************************)
(* SpecLive: SpecGate's run under fairness, against a server that either   *)
(* times out or answers 200, or else fails the request or answers 404.     *)
(* Every GET completes and the event loop runs a ready callback as long as *)
(* there is one: a step that can be taken is eventually taken.             *)
(***************************************************************************)
LiveWebs ==
    {{Raised("TimeoutException"), Answer(200, DocA)},
     {Raised("Exception"), Answer(404, EmptyDoc)}}

InitLive ==
    /\ urls \in {[i \in 1..NumGateUrls |->
                    IF i = bad THEN BadUrl(i) ELSE GoodUrl(i)] :
                 bad \in 0..1}
    /\ web \in LiveWebs
    /\ InitTasks(NumGateUrls)
    /\ IdleDedup /\ rows = <<>> /\ IdleBlock

SpecLive == InitLive /\ [][NextGate]_vars /\ WF_vars(NextGate)

(***************************************************************************)
(* SpecDedup: remove_global_duplicates and save_to_csv on enumerated       *)
(* per-page results.                                                       *)
(***************************************************************************)
SeqsUpTo(S, n) == UNION {[1..k -> S] : k \in 0..n}

\* English lists hold Welcome and CampusNews, Khmer lists Welcome: a string
\* may repeat within a list, across pages and across the two languages.
EnLists == SeqsUpTo({Welcome, CampusNews}, MaxTexts)
KmLists == SeqsUpTo({Welcome}, MaxKhmerTexts)

\* The per-page results built from the lists en[k] and km[k].
PagesOf(en, km) ==
    [k \in 1..Len(en) |->
        [url |-> GoodUrl(k), status |-> "success",
         english_text |-> en[k], khmer_text |-> km[k]]]

InitDedup ==
    /\ \E n \in 0..MaxPages :
         \E en \in [1..n -> EnLists], km \in [1..n -> KmLists] :
            results = PagesOf(en, km)
    /\ mpc = "dedup"
    /\ IdleTasks /\ IdleDedup /\ rows = <<>> /\ IdleBlock

NextDedup ==
    \/ DedupPage /\ UNCHANGED finished
    \/ DedupReturn /\ UNCHANGED finished
    \/ SaveToCsv /\ UNCHANGED finished

SpecDedup == InitDedup /\ [][NextDedup]_vars

(***************************************************************************)
(* SpecPage: one URL answered with 200 and an enumerated document.         *)
(***************************************************************************)
Courses == <<82, 101, 113, 117, 105, 114, 101, 100, 32, 67, 111, 117, 114,
             115, 101, 115>>
IntroText == <<73, 110, 116, 114, 111, 32, 116, 101, 120, 116>>
Credits == <<67, 114, 101, 100, 105, 116, 115>>

ElemChoices ==
    {Elem("h2", En(Courses), TRUE),
     Elem("p", En(IntroText), FALSE),
     Table(<<>>, <<<<En(Math101)>>>>),
     Table(<<En(Credits)>>, <<<<>>>>),
     Table(<<En(Credits), En(Courses)>>, <<<<En(Math101)>>>>)}

PageFamily ==
    {[post_info |-> None, elems |-> es] : es \in SeqsUpTo(ElemChoices, MaxElems)}

InitPage ==
    /\ urls = <<GoodUrl(1)>>
    /\ \E d \in PageFamily : web = {Answer(200, d)}
    /\ InitTasks(1)
    /\ IdleDedup /\ rows = <<>> /\ IdleBlock

SpecPage == InitPage /\ [][NextGate]_vars

(***************************************************************************)
(* Claims about the classification of one block (SpecBlock).               *)
(***************************************************************************)
\* The block as classification sees it, and whether classification is reached.
Cleaned == clean_text(raw_text)
Classified == Len(raw_text) > 5 /\ Cleaned # <<>>
KhmerCount == Cardinality({i \in 1..Len(Cleaned) : Cleaned[i] \in 6016..6143})
\* At least 10 Khmer characters, and they are at least 40% of the block.
KhmerDominant == KhmerCount >= 10 /\ 100 * KhmerCount >= 40 * Len(Cleaned)

\* C8: a cleaned block with at least 10 characters in U+1780..U+17FF that are
\* at least 40% of its length is stored in khmer_text and not in english_text
\* whatever the detector would do; a block with fewer such characters or a
\* lower ratio reaches khmer_text only when the detector answers "km".
C8_KhmerFastPath ==
    bpc = "return" =>
        /\ KhmerDominant =>
              /\ block_content.khmer_text = <<Cleaned>>
              /\ block_content.english_text = <<>>
        /\ (~KhmerDominant /\ detected # "km") =>
              block_content.khmer_text = <<>>

\* A block at the thresholds (10 Khmer characters of 25) is stored as Khmer
\* although the detector raises.
C8_Witness ==
    /\ bpc = "return"
    /\ KhmerCount = 10 /\ Len(Cleaned) = 25
    /\ detected = "raise"
    /\ block_content.khmer_text = <<Cleaned>>

\* C9 as stated: a classified block off the Khmer fast path for which the
\* detector reports a code other than "en" and "km", or raises, is stored in
\* english_text.
C9_Original ==
    (bpc = "return" /\ Classified /\ ~KhmerDominant
        /\ detected \notin {"en", "km"}) =>
            block_content.english_text = <<Cleaned>>

\* C9 as amended: off the Khmer fast path a code other than "en" and "km" is
\* stored in english_text, and a detector exception stores the block in
\* neither list.
C9_OtherCodeEnglishRaiseDropped ==
    (bpc = "return" /\ Classified /\ ~KhmerDominant) =>
        /\ (detected \notin {"en", "km", "raise"}) =>
              /\ block_content.english_text = <<Cleaned>>
              /\ block_content.khmer_text = <<>>
        /\ (detected = "raise") =>
              /\ block_content.english_text = <<>>
              /\ block_content.khmer_text = <<>>

\* A block of Latin letters reported as "fr" is stored in english_text.
C9_Witness ==
    /\ bpc = "return" /\ Classified /\ ~KhmerDominant
    /\ detected = "fr"
    /\ block_content.english_text = <<Cleaned>>

(***************************************************************************)
(* Claims about remove_global_duplicates (SpecDedup).                      *)
(***************************************************************************)
AllTexts(pages, lang) == Flatten([k \in 1..Len(pages) |-> pages[k][lang]])
NoRepeat(s) == \A a, b \in 1..Len(s) : s[a] = s[b] => a = b
DedupDone == mpc = "dedup" /\ item > Len(results)

\* C1: the result of remove_global_duplicates holds no string twice across
\* all english_text lists, and none twice across all khmer_text lists; the
\* languages are tracked apart.
C1_NoDuplicateAcrossPages ==
    /\ NoRepeat(AllTexts(new_results, "english_text"))
    /\ NoRepeat(AllTexts(new_results, "khmer_text"))
    /\ DedupDone =>
          \A t \in Range(AllTexts(results, "english_text"))
                   \cap Range(AllTexts(results, "khmer_text")) :
              /\ t \in Range(AllTexts(new_results, "english_text"))
              /\ t \in Range(AllTexts(new_results, "khmer_text"))

\* The input repeats a string within a page, across pages and across the
\* languages; the result has it once per language.
C1_Witness ==
    /\ DedupDone /\ Len(results) = 2
    /\ results[1].english_text = <<Welcome, Welcome>>
    /\ results[1].khmer_text = <<Welcome>>
    /\ results[2].english_text = <<CampusNews, Welcome>>
    /\ AllTexts(new_results, "english_text") = <<Welcome, CampusNews>>
    /\ AllTexts(new_results, "khmer_text") = <<Welcome>>

\* Text j of page k is the first occurrence of its string in its language,
\* over the pages in input order and, within a page, in list order.
FirstOccurrence(lang, k, j) ==
    /\ \A k2 \in 1..(k - 1) : results[k][lang][j] \notin Range(results[k2][lang])
    /\ \A j2 \in 1..(j - 1) : results[k][lang][j2] # results[k][lang][j]

FirstOccurrences(lang, k) ==
    KeepAt(results[k][lang],
           {j \in 1..Len(results[k][lang]) : FirstOccurrence(lang, k, j)})

ExpectedPage(k) ==
    [url |-> results[k].url, status |-> results[k].status,
     english_text |-> FirstOccurrences("english_text", k),
     khmer_text |-> FirstOccurrences("khmer_text", k)]

ExpectedPages ==
    LET all == [k \in 1..Len(results) |-> ExpectedPage(k)]
    IN SelectSeq(all, LAMBDA q : ~(q.english_text = <<>> /\ q.khmer_text = <<>>))

\* C6: remove_global_duplicates keeps exactly the first occurrences, in
\* page order and list order, omits exactly the pages left with two empty
\* lists, and every distinct input string of a language is in the output.
C6_FirstOccurrenceKept ==
    DedupDone =>
        /\ new_results = ExpectedPages
        /\ \A lang \in {"english_text", "khmer_text"} :
              Range(AllTexts(new_results, lang)) = Range(AllTexts(results, lang))

\* The second page holds only strings the first page has: it is omitted.
C6_Witness ==
    /\ DedupDone /\ Len(results) = 2
    /\ results[1].english_text = <<CampusNews, Welcome, CampusNews>>
          \/ results[1].english_text = <<CampusNews, Welcome>>
    /\ results[2].english_text = <<Welcome>>
    /\ results[2].khmer_text = <<>>
    /\ Len(new_results) = 1
    /\ new_results[1].english_text = <<CampusNews, Welcome>>

(***************************************************************************)
(* Claims about the admission gate (SpecGate).                             *)
(***************************************************************************)
\* The tasks that hold a slot: acquired or handed one, and not released.
Holding == {i \in Tasks : pc[i] \in {"woken", "fetching", "sleeping"}}

\* C2: at most 5 tasks are inside the admission gate, which is no more than
\* the connection pool's 10; the free slots and the holders add up to 5.
C2_GateAtMostFive ==
    /\ Cardinality(Holding) <= 5
    /\ sem + Cardinality(Holding) = 5
    /\ GateSize <= MaxConnections /\ MaxConnections = 10

\* The gate is full, one holder was handed its slot by a release, and a
\* task still waits.
C2_Witness ==
    /\ Cardinality(Holding) = 5
    /\ \E i \in Tasks : pc[i] = "woken"
    /\ \E i \in Tasks : pc[i] = "done"
    /\ sem = 0

(***************************************************************************)
(* Claims about scrape_multiple_urls and main (Spec).                      *)
(***************************************************************************)
Returned == mpc \in {"dedup", "save", "end"}
Final == mpc \in {"save", "end"}

Got200(i) ==
    /\ resp[i] # None
    /\ resp[i][1].kind = "response" /\ resp[i][1].status = 200

\* Position i has a valid URL, was answered with 200 and its page was
\* processed without an exception.
Succeeds(i) ==
    /\ urls[i].scheme # "" /\ urls[i].netloc # ""
    /\ Got200(i)
    /\ page_content(urls[i], resp[i][1].doc) # None

\* C3: scrape_multiple_urls returns, in input order, exactly one PageResult
\* for each position that succeeds and none for any other; each is the
\* content of its own page; no failure leaves scrape_multiple_urls.
C3_OneResultPerSuccess ==
    /\ mpc # "raised"
    /\ (mpc = "dedup") =>
          LET ok == {i \in Tasks : Succeeds(i)}
          IN /\ Len(results) = Cardinality(ok)
             /\ \A i \in ok :
                   LET k == Cardinality({j \in ok : j <= i})
                   IN results[k] = page_content(urls[i], resp[i][1].doc)[1]
             /\ \A i \in Tasks \ ok :
                   \A k \in 1..Len(results) : results[k].url # urls[i]

\* An invalid URL, a raised exception and a success, one at each position.
C3_Witness ==
    /\ mpc = "dedup"
    /\ urls[1] = BadUrl(1)
    /\ resp[2] = Some(Raised("Exception"))
    /\ Succeeds(3)
    /\ Len(results) = 1 /\ results[1].url = urls[3]

\* C4: remove_global_duplicates runs, and its seen-sets are touched, only
\* when every fetch task has finished.
C4_JoinBarrier ==
    /\ Returned => \A i \in Tasks : pc[i] = "done"
    /\ (\E i \in Tasks : pc[i] # "done") =>
          /\ global_seen_en = {} /\ global_seen_km = {}
          /\ new_results = <<>> /\ item = 1

\* The first page has been deduplicated after three tasks finished, the
\* first of them last.
C4_Witness ==
    /\ mpc = "dedup" /\ item = 2 /\ global_seen_en # {}
    /\ Len(finished) = NumUrls /\ finished[NumUrls] = 1

\* C5: a PageResult is returned only after the pacing delay has elapsed in
\* full after a 200 response; a task that returns None has not waited.
C5_PacedSuccess ==
    \A i \in Tasks :
        /\ ret[i] # None => (Got200(i) /\ waited[i] = Delay /\ Delay > 0)
        /\ (pc[i] = "done" /\ ret[i] = None) => waited[i] = 0
        /\ pc[i] = "sleeping" => ret[i] = None

\* One task has returned its page after the delay, another failed at once.
C5_Witness ==
    /\ \E i \in Tasks : ret[i] # None /\ waited[i] = Delay
    /\ \E i \in Tasks : pc[i] = "done" /\ Got200(i) /\ ret[i] = None
    /\ \E i \in Tasks : pc[i] = "sleeping"

Succeeded(i) == pc[i] = "done" /\ ret[i] # None
CompletedBefore(i, j) ==
    \E a, b \in 1..Len(finished) : a < b /\ finished[a] = i /\ finished[b] = j
\* The final result attributes text t, in list lang, to the page of position i.
Keeps(i, lang, t) ==
    \E k \in 1..Len(results) :
        results[k].url = urls[i] /\ t \in Range(results[k][lang])
Langs == {"english_text", "khmer_text"}
\* The positions whose fetched page holds text t in list lang.
Holders(lang, t) == {i \in Tasks : Succeeded(i) /\ t \in Range(ret[i][1][lang])}
FetchedTexts(lang) == UNION {Range(ret[i][1][lang]) : i \in {j \in Tasks : Succeeded(j)}}

\* C7 as stated: of the fetched pages with a common text, the page whose
\* task completed first keeps the text.
C7_Original ==
    Final =>
        \A lang \in Langs : \A t \in FetchedTexts(lang) :
            \A i \in Holders(lang, t) :
                Keeps(i, lang, t) <=>
                    \A j \in Holders(lang, t) \ {i} : CompletedBefore(i, j)

\* C7 as amended: of the fetched pages with a common text, the page earliest
\* in the input URL list keeps the text, whatever the order in which the
\* tasks completed.
C7_InputOrderWins ==
    Final =>
        \A lang \in Langs : \A t \in FetchedTexts(lang) :
            \A i \in Holders(lang, t) :
                Keeps(i, lang, t) <=> \A j \in Holders(lang, t) : i <= j

\* The later page completed first and the earlier page keeps the text.
C7_Witness ==
    /\ Final
    /\ \E i, j \in Tasks :
        /\ i < j /\ Succeeded(i) /\ Succeeded(j) /\ CompletedBefore(j, i)
        /\ {i, j} \subseteq Holders("english_text", Welcome)
        /\ Keeps(i, "english_text", Welcome)
        /\ ~Keeps(j, "english_text", Welcome)

(***************************************************************************)
(* Claims about the tables of one page (SpecPage).                         *)
(***************************************************************************)
\* The document has a table with a data row that no p, small, h4, h5 or h6
\* precedes, and every DataFrame of the page can be built.
RowTableWithoutDetail(doc) ==
    LET elems == Body(doc)
    IN /\ \E i \in 1..Len(elems) :
            /\ elems[i].tag = "table"
            /\ \E r \in 1..Len(elems[i].rows) : elems[i].rows[r] # <<>>
            /\ \A j \in 1..(i - 1) :
                  elems[j].tag \notin {"p", "small", "h4", "h5", "h6"}
       /\ ~extract_tables_to_dataframes(doc).raised

\* C10: for a page answered with 200 that has a table with a data row and
\* no preceding detail element, scrape_url returns the PageResult with the
\* extracted text blocks, and the first table's title is a string.
C10_AbsentDetailNoError ==
    \A i \in Tasks :
        (pc[i] = "done" /\ Got200(i) /\ RowTableWithoutDetail(resp[i][1].doc)) =>
            LET doc == resp[i][1].doc
            IN /\ ret[i] # None
               /\ ret[i][1].english_text = extract_content(doc).english_text
               /\ ret[i][1].khmer_text = extract_content(doc).khmer_text
               /\ extract_tables_to_dataframes(doc).tables[1].title # None

(***************************************************************************)
(* Claims about clean_text (SpecClean).                                    *)
(***************************************************************************)
\* The indices of the whitespace characters of a text.
Blanks(s) == {i \in 1..Len(s) : IsSpace(s[i])}

\* C11: for every input string, the output of clean_text has no leading or
\* trailing whitespace and no run of two or more whitespace characters:
\* every interior whitespace run is a single space, also after the dash and
\* dot removals.
C11_NormalisedWhitespace ==
    bpc = "return" =>
        /\ 1 \notin Blanks(cleaned)
        /\ Len(cleaned) \notin Blanks(cleaned)
        /\ \A i \in Blanks(cleaned) : cleaned[i] = 32 /\ i + 1 \notin Blanks(cleaned)

(***************************************************************************)
(* Claims about save_to_csv (Spec).                                        *)
(***************************************************************************)
\* The number of texts in the first p pages of data.
TextCount(data, p) ==
    LET F[k \in 0..p] ==
            IF k = 0 THEN 0
            ELSE F[k - 1] + Len(data[k].english_text) + Len(data[k].khmer_text)
    IN F[p]

\* C12: the rows written by save_to_csv carry the IDs 1, 2, 3, ... without
\* gap or repeat across all pages, every row has exactly one of English_Text
\* and Khmer_Text non-empty, and the contribution of each page is its English
\* texts in list order followed by its Khmer texts in list order.
C12_RowsInOrder ==
    mpc = "end" =>
        /\ Len(rows) = TextCount(results, Len(results))
        /\ \A k \in 1..Len(rows) :
              /\ rows[k].ID = k
              /\ (rows[k].English_Text = <<>>) # (rows[k].Khmer_Text = <<>>)
        /\ \A p \in 1..Len(results) :
              LET base == TextCount(results, p - 1)
                  en == results[p].english_text
                  km == results[p].khmer_text
              IN /\ \A j \in 1..Len(en) :
                       /\ rows[base + j].English_Text = en[j]
                       /\ rows[base + j].Khmer_Text = <<>>
                 /\ \A j \in 1..Len(km) :
                       /\ rows[base + Len(en) + j].Khmer_Text = km[j]
                       /\ rows[base + Len(en) + j].English_Text = <<>>

\* Two pages were saved, the first with English and Khmer texts, so that the
\* rows of the second page start at an ID above 2.
C12_Witness ==
    /\ mpc = "end"
    /\ Len(results) >= 2
    /\ results[1].english_text # <<>> /\ results[1].khmer_text # <<>>
    /\ results[2].english_text # <<>>
    /\ Len(rows) > TextCount(results, 1)

(***************************************************************************)
(* Claims about the length threshold of _process_text_block (SpecBlock).   *)
(***************************************************************************)
\* The texts the call stored in either list.
StoredTexts == Range(block_content.english_text)
                   \cup Range(block_content.khmer_text)

\* C13 as stated: no block whose length after cleaning is 5 characters or
\* fewer is stored in english_text or khmer_text; every stored block has a
\* cleaned length of at least 6.
C13_Original ==
    bpc = "return" => \A t \in StoredTexts : Len(t) >= 6

\* C13 as amended: the threshold is on the raw text.  A block is stored only
\* when its raw length is at least 6 and its cleaned form is not empty, what
\* is stored is the cleaned form, and such a block is stored unless it is
\* off the Khmer fast path and the detector raises.
C13_RawLengthGate ==
    bpc = "return" =>
        /\ \A t \in StoredTexts :
              Len(raw_text) >= 6 /\ t = Cleaned /\ Len(t) >= 1
        /\ (Len(raw_text) >= 6 /\ Cleaned # <<>>
              /\ (KhmerDominant \/ detected # "raise")) =>
                 StoredTexts = {Cleaned}

\* A raw block of 6 characters that cleans to 2 characters is stored.
C13_Witness ==
    /\ bpc = "return"
    /\ Len(raw_text) = 6 /\ Len(Cleaned) = 2
    /\ block_content.english_text = <<Cleaned>>

(***************************************************************************)
(* Claims about termination and the gate's slots (SpecLive).               *)
(***************************************************************************)
\* Task i went through the gate: its URL is invalid and scrape_url returned
\* at once, or its GET was issued and completed.
WentThrough(i) == pc[i] = "done" /\ (validate_url(urls[i]) => resp[i] # None)

\* C14: when every GET eventually completes and the scheduler is fair, with
\* more URLs than slots every task eventually passes the admission gate and
\* finishes, and scrape_multiple_urls eventually returns with all 5 slots
\* free and nobody waiting; on every exit path of scrape_url the slot is
\* given back, so that the free slots and the holders always add up to 5.
C14_AllFinishSlotsFree ==
    /\ <>(/\ Returned
          /\ \A i \in Tasks : WentThrough(i)
          /\ sem = GateSize /\ waiters = <<>>)
    /\ [](sem + Cardinality(Holding) = GateSize)
    /\ [](Returned => (sem = GateSize /\ \A i \in Tasks : pc[i] = "done"))

\* scrape_multiple_urls returned from more tasks than slots that left
\* scrape_url on three different paths (invalid URL, timeout, success after
\* the delay), and all 5 slots are free.
C14_Witness ==
    /\ Returned /\ Len(urls) > GateSize
    /\ sem = GateSize /\ waiters = <<>>
    /\ \A i \in Tasks : pc[i] = "done"
    /\ \E i \in Tasks : ~validate_url(urls[i])
    /\ \E i \in Tasks :
          resp[i] # None /\ resp[i][1].kind = "TimeoutException"
    /\ \E i \in Tasks : Got200(i) /\ waited[i] = Delay /\ ret[i] # None

====
